---- MODULE Spec2Model ----
(***************************************************************************)
(* Homography estimation (homography.py): the DLT solver find_homography,  *)
(* the scorer count_homography_inliers, the RANSAC loop                    *)
(* find_homography_RANSAC, the metric homography_error and the two example *)
(* drivers that refine the RANSAC result.                                  *)
(*                                                                         *)
(* A run of the model is one call of one of these operations (op) on       *)
(* inputs drawn in Init.  Points are integer pairs <<x, y>>; a 2xN array   *)
(* is a sequence of N points.  Matrices are 3x3 integer matrices, read up  *)
(* to the arithmetic the code does on them.  A reprojection error is kept  *)
(* exactly as [k, s, d]: the finite value sqrt(s/d), or inf, or nan.       *)
(***************************************************************************)
EXTENDS Integers, Sequences, FiniteSets, TLC

VARIABLES
    op,             \* the operation being called
    pc,             \* "call", "sampled", "refine", "returned", "raised"
    exc,            \* the exception that ended the call, "" when none
    pts1, pts2,     \* the two point arrays
    thresh,         \* thresh argument
    niter,          \* niter argument
    Hin, Hin2,      \* matrix arguments (count_homography_inliers, homography_error)
    focal,          \* focal argument of homography_error
    k,              \* RANSAC iterations completed
    idx,            \* indices drawn by the current iteration (0-based)
    sampled_pts1, sampled_pts2,
    Hbest, ninliers, errors,   \* the best-so-far triple
    hist,           \* history: the candidate (H, count, errors) of every iteration
    ret             \* value returned by the direct calls and by the refinement

vars == <<op, pc, exc, pts1, pts2, thresh, niter, Hin, Hin2, focal, k, idx,
          sampled_pts1, sampled_pts2, Hbest, ninliers, errors, hist, ret>>

(* ------------------------------ bounds -------------------------------- *)

\* largest number of points in an input array
MaxN == 5
\* largest niter
MaxIter == 2

(* --------------------------- Python values ---------------------------- *)

None == [tag |-> "None"]
Some(v) == [tag |-> "Some", val |-> v]
IsNone(x) == x.tag = "None"

(* ----------------------------- matrices ------------------------------- *)

Identity == << <<1, 0, 0>>, <<0, 1, 0>>, <<0, 0, 1>> >>
\* translation by (0, 3)
Shift3 == << <<1, 0, 0>>, <<0, 1, 3>>, <<0, 0, 1>> >>
\* rank one, third row zero: projects every point to w = 0
Degenerate == << <<1, 0, 0>>, <<0, 0, 0>>, <<0, 0, 0>> >>
\* maps every point to the origin
Collapse == << <<0, 0, 0>>, <<0, 0, 0>>, <<0, 0, 1>> >>

\* the 3x3 matrices the model represents
HSet == {Identity, Shift3, Degenerate, Collapse}

Flatten(H) == H[1] \o H[2] \o H[3]

Dot(a, b) ==
    LET RECURSIVE S(_)
        S(i) == IF i = 0 THEN 0 ELSE a[i] * b[i] + S(i - 1)
    IN S(Len(a))

(* ------------------------- find_homography ---------------------------- *)

\* the two rows appended to A for correspondence (a, b)
Rows(a, b) ==
    << <<a[1], a[2], 1, 0, 0, 0, -a[1] * b[1], -a[2] * b[1], -b[1]>>,
       <<0, 0, 0, a[1], a[2], 1, -a[1] * b[2], -a[2] * b[2], -b[2]>> >>

RECURSIVE DesignMatrix(_, _, _)
DesignMatrix(p1, p2, n) ==
    IF n = 0 THEN <<>>
    ELSE DesignMatrix(p1, p2, n - 1) \o Rows(p1[n], p2[n])

\* h = Vh[-1, :] of np.linalg.svd(A), reshaped: a right singular vector of
\* the smallest singular value.  Where A has a null vector among the
\* represented matrices the result is one of those (which one, and its
\* scale, is the library's choice); otherwise the least-squares direction
\* is not computed here and may be any represented matrix.
SVDLast(A) ==
    LET null == {H \in HSet : \A r \in 1..Len(A) : Dot(A[r], Flatten(H)) = 0}
    IN IF null # {} THEN null ELSE HSet

\* [exc, H]: the exception raised, or "" and the set of possible results
find_homography(p1, p2) ==
    LET n == Len(p1) IN
    IF n > Len(p2) THEN [exc |-> "IndexError", H |-> {}]
    ELSE IF n = 0 THEN [exc |-> "LinAlgError", H |-> {}]
    ELSE [exc |-> "", H |-> SVDLast(DesignMatrix(p1, p2, n))]

(* --------------------- count_homography_inliers ----------------------- *)

Nan == [k |-> "nan", s |-> 0, d |-> 1]
Inf == [k |-> "inf", s |-> 0, d |-> 1]

\* errors[i]: sqrt(sum((Hp1[0:2]/Hp1[2] - b)**2)) for Hp1 = H @ (a, 1)
PointError(H, a, b) ==
    LET u == H[1][1] * a[1] + H[1][2] * a[2] + H[1][3]
        v == H[2][1] * a[1] + H[2][2] * a[2] + H[2][3]
        w == H[3][1] * a[1] + H[3][2] * a[2] + H[3][3]
    IN IF w = 0
       THEN (IF u = 0 \/ v = 0 THEN Nan ELSE Inf)
       ELSE [k |-> "fin",
             s |-> (u - b[1] * w) * (u - b[1] * w) + (v - b[2] * w) * (v - b[2] * w),
             d |-> w * w]

\* errors < thresh**2, elementwise (both sides are >= 0, so squares decide)
BelowThresh(e, t) == e.k = "fin" /\ e.s < t * t * t * t * e.d

\* np.sum(np.where(errors < thresh**2, 1, 0))
CountBelow(errs, t) == Cardinality({i \in 1..Len(errs) : BelowThresh(errs[i], t)})

\* [exc, n, e]; the subtraction broadcasts (2, N1) against (2, N2)
count_homography_inliers(H, p1, p2, t) ==
    LET N1 == Len(p1)
        N2 == Len(p2)
        N == IF N1 = 1 THEN N2 ELSE N1
        errs == [i \in 1..N |->
                    PointError(H, p1[IF N1 = 1 THEN 1 ELSE i],
                                  p2[IF N2 = 1 THEN 1 ELSE i])]
    IN IF N1 # N2 /\ N1 # 1 /\ N2 # 1
       THEN [exc |-> "ValueError", n |-> 0, e |-> <<>>]
       ELSE [exc |-> "", n |-> CountBelow(errs, t), e |-> errs]

(* ----------------------- find_homography_RANSAC ----------------------- *)

\* np.random.choice(N, 4, replace=False): the possible draws, or {} when it raises
\* (variant: drawn with replacement)
MutChoice(N) == IF N < 4 THEN {} ELSE [1..4 -> 0..(N - 1)]
Choice(N) ==
    IF N < 4 THEN {}
    ELSE {s \in [1..4 -> 0..(N - 1)] : \A i, j \in 1..4 : i # j => s[i] # s[j]}

\* pts[:, idx]
Take(pts, s) == [i \in 1..Len(s) |-> pts[s[i] + 1]]

\* the update at the end of an iteration, on best = [H, n, e]
\* (variants: replace always; replace on ties too; replace H and the count
\* but keep an earlier error vector)
MutUpdate(best, cand) ==
    [H |-> Some(cand.H), n |-> cand.n, e |-> Some(cand.e)]
MutUpdateTies(best, cand) ==
    IF cand.n >= best.n
    THEN [H |-> Some(cand.H), n |-> cand.n, e |-> Some(cand.e)]
    ELSE best
MutUpdateStale(best, cand) ==
    IF cand.n > best.n
    THEN [H |-> Some(cand.H), n |-> cand.n,
          e |-> IF IsNone(best.e) THEN Some(cand.e) ELSE best.e]
    ELSE best
Update(best, cand) ==
    IF cand.n > best.n
    THEN [H |-> Some(cand.H), n |-> cand.n, e |-> Some(cand.e)]
    ELSE best

RansacOps == {"ransac", "synthetic_example", "real_example"}
Callers == {"synthetic_example", "real_example"}

\* lines 80-84: the loop test, the draw and the two fancy-indexing reads
Sample ==
    /\ op \in RansacOps
    /\ pc = "call"
    /\ k < niter
    /\ IF Choice(Len(pts1)) = {}
       THEN /\ pc' = "raised"
            /\ exc' = "ValueError"
            /\ UNCHANGED <<idx, sampled_pts1, sampled_pts2>>
       ELSE \E s \in Choice(Len(pts1)) :
            /\ idx' = s
            /\ IF \E i \in 1..4 : s[i] >= Len(pts2)
               THEN /\ pc' = "raised"
                    /\ exc' = "IndexError"
                    /\ sampled_pts1' = Take(pts1, s)
                    /\ UNCHANGED sampled_pts2
               ELSE /\ pc' = "sampled"
                    /\ exc' = ""
                    /\ sampled_pts1' = Take(pts1, s)
                    /\ sampled_pts2' = Take(pts2, s)
    /\ UNCHANGED <<op, pts1, pts2, thresh, niter, Hin, Hin2, focal, k,
                   Hbest, ninliers, errors, hist, ret>>

\* lines 86-96: solve on the sample, score on all points, update the best.
\* The loop locals are dead at the loop head and are cleared there.
Fit ==
    /\ pc = "sampled"
    /\ LET fh == find_homography(sampled_pts1, sampled_pts2) IN
       IF fh.exc # ""
       THEN /\ pc' = "raised"
            /\ exc' = fh.exc
            /\ UNCHANGED <<k, idx, sampled_pts1, sampled_pts2, Hbest, ninliers, errors, hist>>
       ELSE \E H \in fh.H :
            LET sc == count_homography_inliers(H, pts1, pts2, thresh) IN
            IF sc.exc # ""
            THEN /\ pc' = "raised"
                 /\ exc' = sc.exc
                 /\ UNCHANGED <<k, idx, sampled_pts1, sampled_pts2, Hbest, ninliers,
                                errors, hist>>
            ELSE LET cand == [H |-> H, n |-> sc.n, e |-> sc.e]
                     best == Update([H |-> Hbest, n |-> ninliers, e |-> errors], cand)
                 IN /\ Hbest' = best.H
                    /\ ninliers' = best.n
                    /\ errors' = best.e
                    /\ hist' = Append(hist, cand)
                    /\ k' = k + 1
                    /\ idx' = <<>>
                    /\ sampled_pts1' = <<>>
                    /\ sampled_pts2' = <<>>
                    /\ pc' = "call"
                    /\ exc' = ""
    /\ UNCHANGED <<op, pts1, pts2, thresh, niter, Hin, Hin2, focal, ret>>

\* line 98; in the example drivers control then stands at the refinement
\* statement (lines 108 and 123)
RansacReturn ==
    /\ op \in RansacOps
    /\ pc = "call"
    /\ k = niter
    /\ pc' = IF op \in Callers THEN "refine" ELSE "returned"
    /\ UNCHANGED <<op, exc, pts1, pts2, thresh, niter, Hin, Hin2, focal, k, idx,
                   sampled_pts1, sampled_pts2, Hbest, ninliers, errors, hist, ret>>

(* -------------------------- homography_error -------------------------- *)

RECURSIVE GCD(_, _)
GCD(a, b) == IF b = 0 THEN a ELSE GCD(b, a % b)
Abs(a) == IF a < 0 THEN -a ELSE a

\* IEEE values as the code produces them: an exact fraction n/d (d > 0, in
\* lowest terms), +inf, -inf or nan
XNan == [k |-> "nan", n |-> 0, d |-> 1]
XInf(sign) == [k |-> IF sign > 0 THEN "pinf" ELSE "ninf", n |-> 0, d |-> 1]
XFin(n, d) ==
    LET g == GCD(Abs(n), Abs(d))
        sg == IF d < 0 THEN -1 ELSE 1
    IN [k |-> "fin", n |-> sg * (n \div g), d |-> sg * (d \div g)]
XSign(x) == IF x.k = "pinf" THEN 1
            ELSE IF x.k = "ninf" THEN -1
            ELSE IF x.n > 0 THEN 1 ELSE IF x.n < 0 THEN -1 ELSE 0

\* a / b for two array entries: numpy divides by zero into inf or nan
XDiv(a, b) ==
    IF b # 0 THEN XFin(a, b)
    ELSE IF a = 0 THEN XNan
    ELSE XInf(a)

XAdd(x, y) ==
    IF x.k = "nan" \/ y.k = "nan" THEN XNan
    ELSE IF x.k = "fin" /\ y.k = "fin"
         THEN LET g == GCD(x.d, y.d)
              IN XFin(x.n * (y.d \div g) + y.n * (x.d \div g), (x.d \div g) * y.d)
    ELSE IF x.k = "fin" THEN y
    ELSE IF y.k = "fin" THEN x
    ELSE IF x.k = y.k THEN x
    ELSE XNan

XNeg(x) ==
    IF x.k = "fin" THEN XFin(-x.n, x.d)
    ELSE IF x.k = "pinf" THEN XInf(-1)
    ELSE IF x.k = "ninf" THEN XInf(1)
    ELSE XNan

XMul(x, y) ==
    IF x.k = "nan" \/ y.k = "nan" THEN XNan
    ELSE IF x.k = "fin" /\ y.k = "fin" THEN XFin(x.n * y.n, x.d * y.d)
    ELSE IF XSign(x) = 0 \/ XSign(y) = 0 THEN XNan
    ELSE XInf(XSign(x) * XSign(y))

\* H / H[2,2]
Normalized(H) == [i \in 1..3 |-> [j \in 1..3 |-> XDiv(H[i][j], H[3][3])]]

\* A @ B for 3x3 arrays
MatMul(A, B) ==
    [i \in 1..3 |-> [j \in 1..3 |->
        XAdd(XAdd(XMul(A[i][1], B[1][j]), XMul(A[i][2], B[2][j])), XMul(A[i][3], B[3][j]))]]

\* np.diag((a, b, c))
Diag(a, b, c) ==
    << <<a, XFin(0, 1), XFin(0, 1)>>, <<XFin(0, 1), b, XFin(0, 1)>>,
       <<XFin(0, 1), XFin(0, 1), c>> >>

\* np.linalg.norm(D): the Frobenius norm, returned as its square n/d
\* (the value is sqrt(n/d)), or inf, or nan
FrobeniusNorm(D) ==
    LET E == {<<i, j>> : i \in 1..3, j \in 1..3}
        RECURSIVE SumSq(_)
        SumSq(S) == IF S = {} THEN XFin(0, 1)
                    ELSE LET e == CHOOSE e \in S : TRUE
                         IN XAdd(XMul(D[e[1]][e[2]], D[e[1]][e[2]]), SumSq(S \ {e}))
        t == SumSq(E)
    IN IF t.k = "ninf" THEN XInf(1) ELSE t

\* lines 38-39; no statement of it raises for focal # 0
homography_error(H1, H2, f) ==
    LET N1 == Normalized(H1)
        N2 == Normalized(H2)
        H_diff == [i \in 1..3 |-> [j \in 1..3 |-> XAdd(N1[i][j], XNeg(N2[i][j]))]]
        D == MatMul(MatMul(Diag(XFin(1, f), XFin(1, f), XFin(1, 1)), H_diff),
                    Diag(XFin(f, 1), XFin(f, 1), XFin(1, 1)))
    IN FrobeniusNorm(D)

(* ----------------------------- inputs --------------------------------- *)

\* source points: in general position (on a parabola), or all at the origin
Kinds == {"general", "origin"}
GeneralPoint(i) == <<i - 1, (i - 1) * (i - 1)>>
SourcePoint(kind, i) == IF kind = "general" THEN GeneralPoint(i) ELSE <<0, 0>>
\* target points: pairwise distinct, equal to the general source point
\* except that the first m are moved by (0, 3)
TargetPoint(kind, i, m) ==
    LET p == GeneralPoint(i) IN IF i <= m THEN <<p[1], p[2] + 3>> ELSE p

Source(kind, n) == [i \in 1..n |-> SourcePoint(kind, i)]
Target(kind, n, m) == [i \in 1..n |-> TargetPoint(kind, i, m)]

\* matched arrays of n correspondences, the first m of them moved
MatchedOf(kinds, ms) ==
    {[p1 |-> Source(kind, n), p2 |-> Target(kind, n, m)] :
        kind \in kinds, n \in 0..MaxN, m \in ms}

\* none, one or all of the correspondences moved
Matched == MatchedOf(Kinds, {0, 1, MaxN})

\* arrays of different lengths: pts2 one point shorter or longer than pts1
Mismatched ==
    {d \in {[p1 |-> Source("general", n1), p2 |-> Target("general", n2, 0)] :
                n1 \in 0..MaxN, n2 \in 0..MaxN} :
        Len(d.p1) - Len(d.p2) \in {-1, 1}}

Datasets == Matched \cup Mismatched

\* what the point generators hand to the example drivers: matched arrays on
\* which every 4-point system has a represented null vector (all targets
\* consistent with one represented matrix, or all sources identical)
ExampleDatasets == MatchedOf({"general"}, {0, MaxN}) \cup MatchedOf({"origin"}, {0, 1, MaxN})

ThreshSet == {0, 1, 2}
ScoreThreshSet == {0, 1, 2, 3}
FocalSet == {1, 2}

Double == << <<2, 0, 0>>, <<0, 2, 0>>, <<0, 0, 2>> >>
ErrorMatrices == HSet \cup {Double}

InitRansac ==
    /\ op = "ransac"
    /\ \E d \in Datasets : pts1 = d.p1 /\ pts2 = d.p2
    /\ thresh \in ThreshSet
    /\ niter \in 0..MaxIter
    /\ Hin = None /\ Hin2 = None /\ focal = 0

\* lines 107 and 122: thresh is the default of line 61; niter is 10000 in
\* the code and MaxIter here
InitExample ==
    /\ op \in Callers
    /\ \E d \in ExampleDatasets : pts1 = d.p1 /\ pts2 = d.p2
    /\ thresh = 1
    /\ niter = MaxIter
    /\ Hin = None /\ Hin2 = None /\ focal = 0

InitSolve ==
    /\ op = "find_homography"
    /\ \E d \in Datasets : pts1 = d.p1 /\ pts2 = d.p2
    /\ thresh = 0 /\ niter = 0
    /\ Hin = None /\ Hin2 = None /\ focal = 0

InitScore ==
    /\ op = "count_homography_inliers"
    /\ \E d \in Datasets : pts1 = d.p1 /\ pts2 = d.p2
    /\ thresh \in ScoreThreshSet
    /\ niter = 0
    /\ \E H \in HSet : Hin = Some(H)
    /\ Hin2 = None /\ focal = 0

InitError ==
    /\ op = "homography_error"
    /\ pts1 = <<>> /\ pts2 = <<>>
    /\ thresh = 0 /\ niter = 0
    /\ \E H \in ErrorMatrices : Hin = Some(H)
    /\ \E H \in ErrorMatrices : Hin2 = Some(H)
    /\ focal \in FocalSet

Init ==
    /\ pc = "call"
    /\ exc = ""
    /\ k = 0
    /\ idx = <<>>
    /\ sampled_pts1 = <<>>
    /\ sampled_pts2 = <<>>
    /\ Hbest = None
    /\ ninliers = 0
    /\ errors = None
    /\ hist = <<>>
    /\ ret = None
    /\ (InitRansac \/ InitExample \/ InitSolve \/ InitScore \/ InitError)

(* --------------------------- direct calls ----------------------------- *)

Solve ==
    /\ op = "find_homography"
    /\ pc = "call"
    /\ LET fh == find_homography(pts1, pts2) IN
       IF fh.exc # ""
       THEN pc' = "raised" /\ exc' = fh.exc /\ ret' = ret
       ELSE \E H \in fh.H : pc' = "returned" /\ exc' = "" /\ ret' = Some(H)
    /\ UNCHANGED <<op, pts1, pts2, thresh, niter, Hin, Hin2, focal, k, idx,
                   sampled_pts1, sampled_pts2, Hbest, ninliers, errors, hist>>

Score ==
    /\ op = "count_homography_inliers"
    /\ pc = "call"
    /\ LET sc == count_homography_inliers(Hin.val, pts1, pts2, thresh) IN
       IF sc.exc # ""
       THEN pc' = "raised" /\ exc' = sc.exc /\ ret' = ret
       ELSE pc' = "returned" /\ exc' = "" /\ ret' = Some([n |-> sc.n, e |-> sc.e])
    /\ UNCHANGED <<op, pts1, pts2, thresh, niter, Hin, Hin2, focal, k, idx,
                   sampled_pts1, sampled_pts2, Hbest, ninliers, errors, hist>>

ErrorMetric ==
    /\ op = "homography_error"
    /\ pc = "call"
    /\ pc' = "returned"
    /\ ret' = Some(homography_error(Hin.val, Hin2.val, focal))
    /\ UNCHANGED <<op, exc, pts1, pts2, thresh, niter, Hin, Hin2, focal, k, idx,
                   sampled_pts1, sampled_pts2, Hbest, ninliers, errors, hist>>

(* ------------------- synthetic_example, real_example ------------------ *)

\* errors < 1, elementwise
BelowOne(e) == e.k = "fin" /\ e.s < e.d

\* pts[:, mask] for a boolean mask over the columns
RECURSIVE Masked(_, _, _)
Masked(pts, errs, n) ==
    IF n = 0 THEN <<>>
    ELSE IF BelowOne(errs[n]) THEN Append(Masked(pts, errs, n - 1), pts[n])
    ELSE Masked(pts, errs, n - 1)

\* lines 108 and 123: H2 = find_homography(pts1[:,errors<1], pts2[:,errors<1]);
\* the argument errors<1 is evaluated first, and None < 1 raises TypeError
Refine ==
    /\ op \in Callers
    /\ pc = "refine"
    /\ IF IsNone(errors)
       THEN pc' = "raised" /\ exc' = "TypeError" /\ ret' = ret
       ELSE LET e == errors.val
                fh == find_homography(Masked(pts1, e, Len(e)), Masked(pts2, e, Len(e)))
            IN IF fh.exc # ""
               THEN pc' = "raised" /\ exc' = fh.exc /\ ret' = ret
               ELSE \E H \in fh.H : pc' = "returned" /\ exc' = "" /\ ret' = Some(H)
    /\ UNCHANGED <<op, pts1, pts2, thresh, niter, Hin, Hin2, focal, k, idx,
                   sampled_pts1, sampled_pts2, Hbest, ninliers, errors, hist>>

Next ==
    \/ Sample
    \/ Fit
    \/ RansacReturn
    \/ Refine
    \/ Solve
    \/ Score
    \/ ErrorMetric

Spec == Init /\ [][Next]_vars

(* ---------------------------- properties ------------------------------ *)

\* find_homography_RANSAC has returned (in a driver, control is then at the
\* refinement statement)
RansacReturned ==
    \/ op = "ransac" /\ pc = "returned"
    \/ op \in Callers /\ pc = "refine"

\* the largest local inlier count over the iterations run (0 when none ran)
MaxCount == 
    IF hist = <<>> THEN 0
    ELSE CHOOSE c \in {hist[i].n : i \in 1..Len(hist)} :
            \A i \in 1..Len(hist) : hist[i].n <= c

NoneState == IsNone(Hbest) /\ ninliers = 0 /\ IsNone(errors)

\* C1: the retained best inlier count is >= 0 throughout and never
\* decreases from one step of the loop to the next.
C1_NinliersNeverDecreases ==
    [](ninliers >= 0) /\ [][ninliers' >= ninliers]_vars

\* C1 witness: a later candidate with fewer inliers came after a better one
\* and the retained count stayed at the better one.
C1_Witness ==
    /\ op = "ransac" /\ Len(hist) >= 2
    /\ hist[1].n > 0 /\ hist[2].n < hist[1].n
    /\ ninliers = hist[1].n

\* C2: with a maximum local count > 0, the returned triple is that of the
\* earliest iteration reaching the maximum (ties do not replace).
C2_EarliestMaxWins ==
    (RansacReturned /\ MaxCount > 0) =>
        LET first == CHOOSE i \in 1..Len(hist) :
                        /\ hist[i].n = MaxCount
                        /\ \A j \in 1..(i - 1) : hist[j].n < MaxCount
        IN /\ Hbest = Some(hist[first].H)
           /\ ninliers = hist[first].n
           /\ errors = Some(hist[first].e)

\* C2 witness: two iterations tied at the maximum with different matrices
\* and different error vectors.
C2_Witness ==
    /\ RansacReturned /\ MaxCount > 0
    /\ \E i, j \in 1..Len(hist) :
          /\ i < j
          /\ hist[i].n = MaxCount /\ hist[j].n = MaxCount
          /\ hist[i].H # hist[j].H
          /\ hist[i].e # hist[j].e

\* C3: the none state (None, 0, None) is returned exactly when no iteration
\* had a candidate with more than 0 inliers; a non-None Hbest never comes
\* with ninliers = 0, Hbest and errors are None together, and on matched
\* arrays of at least 4 points the call does not raise.
C3_NoneIffNoInliers ==
    /\ RansacReturned =>
          /\ NoneState <=> (\A i \in 1..Len(hist) : hist[i].n = 0)
          /\ ~IsNone(Hbest) => ninliers > 0
          /\ IsNone(Hbest) <=> IsNone(errors)
          /\ Len(hist) = niter
    /\ (op = "ransac" /\ Len(pts1) = Len(pts2) /\ Len(pts1) >= 4) => pc # "raised"

\* C3 witness: all niter > 0 iterations ran, none had an inlier, and the
\* call returned the none state.
C3_Witness ==
    /\ op = "ransac" /\ pc = "returned"
    /\ niter > 0 /\ Len(hist) = niter
    /\ NoneState

\* the error e is strictly smaller than t
ErrorLessThan(e, t) == e.k = "fin" /\ t > 0 /\ e.s < t * t * e.d

\* C4: for every threshold, the returned count is the number of errors
\* strictly smaller than thresh.
C4_CountsErrorsBelowThresh ==
    (op = "count_homography_inliers" /\ pc = "returned") =>
        ret.val.n = Cardinality({i \in 1..Len(ret.val.e) :
                                    ErrorLessThan(ret.val.e[i], thresh)})

\* C5: homography_error on a matrix whose [2,2] entry is 0 fails; it never
\* returns a value.
C5_DegenerateNormalizationFails ==
    (/\ op = "homography_error"
     /\ pc # "call"
     /\ (Hin.val[3][3] = 0 \/ Hin2.val[3][3] = 0)) => pc = "raised"

\* C6: find_homography, and find_homography_RANSAC asked for at least one
\* iteration, return no result when the arrays differ in length or hold
\* fewer than 4 correspondences.
C6_InvalidInputFails ==
    (/\ op = "find_homography" \/ (op = "ransac" /\ niter > 0)
     /\ (Len(pts1) # Len(pts2) \/ Len(pts1) < 4)) => pc # "returned"

\* C7: every draw is 4 pairwise-distinct indices in 0..N-1, and the same
\* indices select the sampled points of both arrays.
C7_SampleFourDistinct ==
    idx # <<>> =>
        /\ Len(idx) = 4
        /\ \A i \in 1..Len(idx) : idx[i] >= 0 /\ idx[i] <= Len(pts1) - 1
        /\ \A i, j \in 1..Len(idx) : i # j => idx[i] # idx[j]
        /\ Len(sampled_pts1) = 4
        /\ \A i \in 1..4 : sampled_pts1[i] = pts1[idx[i] + 1]
        /\ pc = "sampled" =>
              /\ Len(sampled_pts2) = 4
              /\ \A i \in 1..4 : sampled_pts2[i] = pts2[idx[i] + 1]

\* C7 witness: a draw of a later iteration, from more than 4 points.
C7_Witness ==
    /\ pc = "sampled" /\ k >= 1
    /\ Len(pts1) > 4
    /\ sampled_pts1 # sampled_pts2

\* C8: the example drivers reach the refinement statement only with a
\* model (Hbest and errors not None).
C8_RefinementOnlyWithModel ==
    (op \in Callers /\ pc = "refine") => (~IsNone(Hbest) /\ ~IsNone(errors))

\* the best-so-far update folded over the candidates c[order[1]], c[order[2]], ...
RECURSIVE Reduce(_, _, _)
Reduce(c, order, n) ==
    IF n = 0 THEN [H |-> None, n |-> 0, e |-> None]
    ELSE Update(Reduce(c, order, n - 1), c[order[n]])

\* C9: folding the update over the candidates in any order gives the same
\* final count, the maximum of the counts; and every candidate is the
\* score of its matrix on the inputs alone.
C9_OrderInsensitiveReduction ==
    RansacReturned =>
        /\ \A order \in Permutations(1..Len(hist)) :
              Reduce(hist, order, Len(hist)).n = ninliers
        /\ ninliers = MaxCount
        /\ \A i \in 1..Len(hist) :
              LET sc == count_homography_inliers(hist[i].H, pts1, pts2, thresh)
              IN hist[i].n = sc.n /\ hist[i].e = sc.e

\* C9 witness: two iterations with different positive counts, the better
\* one first.
C9_Witness ==
    /\ RansacReturned /\ Len(hist) >= 2
    /\ hist[1].n > hist[2].n /\ hist[2].n > 0

\* C10: a non-None Hbest comes with the count and the error vector of the
\* same iteration; errors has one entry per correspondence, each the error
\* of Hbest on that correspondence, and ninliers is the number of entries
\* passing the inlier test for thresh.
C10_BestTripleConsistent ==
    (op \in RansacOps /\ ~IsNone(Hbest)) =>
        /\ \E i \in 1..Len(hist) :
              /\ Hbest = Some(hist[i].H)
              /\ ninliers = hist[i].n
              /\ errors = Some(hist[i].e)
        /\ ~IsNone(errors)
        /\ Len(errors.val) = Len(pts1)
        /\ Len(errors.val) = Len(pts2)
        /\ \A i \in 1..Len(pts1) :
              errors.val[i] = PointError(Hbest.val, pts1[i], pts2[i])
        /\ ninliers = Cardinality({i \in 1..Len(errors.val) :
                                      BelowThresh(errors.val[i], thresh)})

\* C10 witness: after a later iteration improved the best, with more points
\* than the sample and some but not all of them inliers.
C10_Witness ==
    /\ op = "ransac" /\ pc = "call" /\ Len(hist) >= 2
    /\ Len(pts1) > 4
    /\ hist[2].n > hist[1].n /\ hist[1].n > 0
    /\ Hbest = Some(hist[2].H)
    /\ hist[1].e # hist[2].e
    /\ ninliers < Len(pts1)

====
